---- MODULE Spec2Model ----
(***************************************************************************)
(* The notebook hlca_lung_gpu_analysis-visualization.ipynb as a state      *)
(* machine: one action per code cell, run from top to bottom, plus the     *)
(* handlers of the interactive dashboard that the visualization cell       *)
(* blocks on.                                                              *)
(*                                                                         *)
(* The numerical kernels are library code.  A matrix is kept as the        *)
(* sequence of cells its rows come from, the sequence of genes its columns *)
(* come from, and the sequence of transformations applied to its values,   *)
(* so entry (i, j) is the term  stage(rows[i], cols[j]).  The input file   *)
(* holds a few tracked genes (the markers and one ribosomal gene) among    *)
(* many others; of the others only the number expressed in each cell is    *)
(* kept.                                                                   *)
(***************************************************************************)
EXTENDS Integers, Sequences, FiniteSets, TLC

VARIABLES
    pc,                     \* the code cell about to run, "dashboard", "error" or "end"
    failed,                 \* the cell that raised, "" if none
    done,                   \* the cells and dashboard handlers that have run, in order
    input,                  \* the contents of the input file: a profile per cell
    objs,                   \* the AnnData objects created so far, by object id
    adata,                  \* notebook variable adata: an object id, 0 when unbound
    genes,                  \* notebook variable genes: a series of gene names
    barcodes,               \* notebook variable barcodes: a series of barcodes
    sparse_gpu_array,       \* notebook variable sparse_gpu_array: a matrix
    raw_marker_expressions, \* notebook dict marker -> column vector (<<>> unset)
    covariates,             \* notebook variables n_counts and percent_ribo
    calls,                  \* the PCA / neighbors / umap / louvain calls made, in order
    v,                      \* the Visualization object
    rc,                     \* argument and result of the last re_cluster call
    selected_cells,         \* notebook variable selected_cells: a table
    adata_selected_cells    \* notebook variable adata_selected_cells: an object id

vars == <<pc, failed, done, input, objs, adata, genes, barcodes,
          sparse_gpu_array, raw_marker_expressions, covariates, calls, v, rc,
          selected_cells, adata_selected_cells>>

----------------------------------------------------------------------------
(* Bounds of the model *)

\* number of cells (rows) in the input file
NCells == 2

\* number of re-clusterings the user runs in the dashboard
MaxReclusters == 1

\* number of tracked genes that may fall outside the highly variable genes
MaxNonHV == 1

----------------------------------------------------------------------------
(* Parameters set by the notebook *)

markers == <<"ACE2", "TMPRSS2", "EPCAM">>

min_genes_per_cell == 200

max_genes_per_cell == 6000

filter_genes_min_cells == 1

n_components == 50

n_neighbors == 15

knn_n_pcs == 50

umap_min_dist == "0.3"

umap_spread == "1.0"

----------------------------------------------------------------------------
(* The input file *)

\* the tracked genes, in the column order of the file
InputGenes == <<"RPS3", "ACE2", "TMPRSS2", "EPCAM">>

\* the barcode of each row of the file
InputBarcodes == <<"AAACCTG", "AAACGGG", "AAAGATG", "AAAGCAA", "AAATGCC", "AACACGT">>

\* what a cell of the file may look like: the tracked genes it expresses and
\* the number of other genes it expresses
Profiles ==
    { [expr |-> {"RPS3", "ACE2", "TMPRSS2", "EPCAM"}, other |-> 1000],
      [expr |-> {"ACE2", "TMPRSS2", "EPCAM"},         other |-> 197],
      [expr |-> {"ACE2", "TMPRSS2"},                  other |-> 5998],
      [expr |-> {"RPS3", "ACE2", "TMPRSS2", "EPCAM"}, other |-> 150],
      [expr |-> {"EPCAM"},                            other |-> 6000] }

Range(s) == {s[i] : i \in DOMAIN s}

\* number of genes with a non-zero count in row c, among the columns cols
Degree(c, cols) == Cardinality(input[c].expr \cap Range(cols)) + input[c].other

PassesFilter(c) ==
    /\ min_genes_per_cell <= Degree(c, InputGenes)
    /\ Degree(c, InputGenes) <= max_genes_per_cell

----------------------------------------------------------------------------
(* Matrices, series and AnnData objects *)

NoMatrix == [rows |-> <<>>, cols |-> <<>>, stage |-> <<>>]

\* cudf.Series(values): the values under a fresh range index
Series(vals) == [i \in 1..Len(vals) |-> [idx |-> i, val |-> vals[i]]]

Values(s) == [i \in 1..Len(s) |-> s[i].val]

\* series[mask]: the entries kept carry their index labels with them
RECURSIVE Keep(_, _)
Keep(s, mask) ==
    IF s = <<>> THEN <<>>
    ELSE (IF Head(mask) THEN <<Head(s)>> ELSE <<>>) \o Keep(Tail(s), Tail(mask))

\* column j of a matrix as a vector of its entries
Column(M, j) ==
    [i \in 1..Len(M.rows) |-> [cell |-> M.rows[i], gene |-> M.cols[j], stage |-> M.stage]]

Transformed(M, op) == [M EXCEPT !.stage = Append(@, op)]

\* anndata.AnnData(X): the names default to the positions "0", "1", ...
NewAnnData(X) ==
    [X         |-> X,
     obs_names |-> [i \in 1..Len(X.rows) |-> ToString(i - 1)],
     var_names |-> [j \in 1..Len(X.cols) |-> ToString(j - 1)],
     raw       |-> [m \in Range(markers) |-> <<>>],
     X_pca     |-> <<>>,
     neighbors |-> <<>>,
     X_umap    |-> <<>>,
     louvain   |-> <<>>]

NoTable == <<>>

NoVisualization ==
    [adata |-> 0, selection |-> {}, open |-> FALSE, new_df |-> NoTable,
     reclusters |-> 0]

----------------------------------------------------------------------------
(* The notebook's code cells, top to bottom *)

\* a variant of the notebook with the scaling cell above the regression cell
CellsScaleFirst ==
    << "load", "to_gpu", "filter_cells", "filter_genes", "normalize_total",
       "log1p", "to_anndata", "highly_variable_genes", "save_markers",
       "covariates", "scale", "regress_out", "assemble", "pca", "neighbors",
       "umap", "louvain", "visualize", "show_selected", "link_selected", "end" >>

Cells ==
    << "load", "to_gpu", "filter_cells", "filter_genes", "normalize_total",
       "log1p", "to_anndata", "highly_variable_genes", "save_markers",
       "covariates", "regress_out", "scale", "assemble", "pca", "neighbors",
       "umap", "louvain", "visualize", "show_selected", "link_selected", "end" >>

CellIndex(c) == CHOOSE i \in 1..Len(Cells) : Cells[i] = c

NextCell(c) == Cells[CellIndex(c) + 1]

\* a cell ran to its end: the kernel moves to the next cell
Finish(c) ==
    /\ pc' = NextCell(c)
    /\ done' = Append(done, c)
    /\ failed' = failed

\* a cell raised: Run All stops there
Raise(c) ==
    /\ pc' = "error"
    /\ done' = done
    /\ failed' = c

\* the state before the first data cell runs.  The input file is any file of
\* NCells cells of which at least one passes the cell filter: what the
\* libraries do with a matrix of no rows is not this notebook's to decide.
Init ==
    /\ pc = "load"
    /\ failed = ""
    /\ done = <<>>
    /\ input \in [1..NCells -> Profiles]
    /\ \E c \in 1..NCells : PassesFilter(c)
    /\ objs = <<>>
    /\ adata = 0
    /\ genes = <<>>
    /\ barcodes = <<>>
    /\ sparse_gpu_array = NoMatrix
    /\ raw_marker_expressions = [m \in Range(markers) |-> <<>>]
    /\ covariates = [n_counts |-> <<>>, percent_ribo |-> <<>>]
    /\ calls = <<>>
    /\ v = NoVisualization
    /\ rc = [arg |-> 0, ret |-> 0]
    /\ selected_cells = NoTable
    /\ adata_selected_cells = 0

\* adata = sc.read(input_file)
Load ==
    /\ pc = "load"
    /\ objs' = Append(objs,
                 [NewAnnData([rows |-> [i \in 1..NCells |-> i],
                              cols |-> InputGenes,
                              stage |-> <<>>])
                     EXCEPT !.obs_names = SubSeq(InputBarcodes, 1, NCells),
                            !.var_names = InputGenes])
    /\ adata' = Len(objs) + 1
    /\ Finish("load")
    /\ UNCHANGED <<input, genes, barcodes, sparse_gpu_array,
                   raw_marker_expressions, covariates, calls, v, rc,
                   selected_cells, adata_selected_cells>>

\* genes, barcodes, sparse_gpu_array from adata
ToGpu ==
    /\ pc = "to_gpu"
    /\ genes' = Series(objs[adata].var_names)
    /\ barcodes' = Series(objs[adata].obs_names)
    /\ sparse_gpu_array' = objs[adata].X
    /\ Finish("to_gpu")
    /\ UNCHANGED <<input, objs, adata, raw_marker_expressions, covariates, calls,
                   v, rc, selected_cells, adata_selected_cells>>

----------------------------------------------------------------------------
(* rapids_scanpy_funcs: the preprocessing helpers *)

\* filter_cells(X, min_genes, max_genes, barcodes): the rows whose number of
\* expressed genes lies in [min_genes, max_genes], and the barcodes of those rows
filter_cells(X, min_genes, max_genes, bc) ==
    LET query == [i \in 1..Len(X.rows) |->
                     /\ min_genes <= Degree(X.rows[i], X.cols)
                     /\ Degree(X.rows[i], X.cols) <= max_genes]
    IN  [X |-> [X EXCEPT !.rows = Keep(X.rows, query)],
         barcodes |-> Keep(bc, query)]

\* filter_genes(X, genes, min_cells): the columns whose sum reaches min_cells,
\* and the names of those columns under a reset index
filter_genes(X, g, min_cells) ==
    LET thr == [j \in 1..Len(X.cols) |->
                   Cardinality({i \in 1..Len(X.rows) :
                                   X.cols[j] \in input[X.rows[i]].expr}) >= min_cells]
    IN  [X |-> [X EXCEPT !.cols = Keep(X.cols, thr)],
         genes |-> Series(Values(Keep(g, thr)))]

normalize_total(X) == Transformed(X, "normalize_total")

\* regress_out(X, n_counts, percent_ribo): one regression per gene on the
\* per-cell covariates
regress_out(X, nc, pr) == Transformed(X, "regress_out")

scale(X) == Transformed(X, "scale")

----------------------------------------------------------------------------
(* Preprocessing cells *)

\* sparse_gpu_array, barcodes = filter_cells(..., barcodes=barcodes): the
\* values bound to the two names
\* a variant of the cell that leaves barcodes out of the call and the assignment
FilterCellsResultMatrixOnly ==
    LET r == filter_cells(sparse_gpu_array, min_genes_per_cell,
                          max_genes_per_cell, barcodes)
    IN  [sparse_gpu_array |-> r.X, barcodes |-> barcodes]

FilterCellsResult ==
    LET r == filter_cells(sparse_gpu_array, min_genes_per_cell,
                          max_genes_per_cell, barcodes)
    IN  [sparse_gpu_array |-> r.X, barcodes |-> r.barcodes]

FilterCells ==
    /\ pc = "filter_cells"
    /\ sparse_gpu_array' = FilterCellsResult.sparse_gpu_array
    /\ barcodes' = FilterCellsResult.barcodes
    /\ Finish("filter_cells")
    /\ UNCHANGED <<input, objs, adata, genes, raw_marker_expressions,
                   covariates, calls, v, rc, selected_cells,
                   adata_selected_cells>>

FilterGenes ==
    /\ pc = "filter_genes"
    /\ LET r == filter_genes(sparse_gpu_array, genes, filter_genes_min_cells)
       IN  /\ sparse_gpu_array' = r.X
           /\ genes' = r.genes
    /\ Finish("filter_genes")
    /\ UNCHANGED <<input, objs, adata, barcodes, raw_marker_expressions,
                   covariates, calls, v, rc, selected_cells,
                   adata_selected_cells>>

NormalizeTotal ==
    /\ pc = "normalize_total"
    /\ sparse_gpu_array' = normalize_total(sparse_gpu_array)
    /\ Finish("normalize_total")
    /\ UNCHANGED <<input, objs, adata, genes, barcodes, raw_marker_expressions,
                   covariates, calls, v, rc, selected_cells,
                   adata_selected_cells>>

Log1p ==
    /\ pc = "log1p"
    /\ sparse_gpu_array' = Transformed(sparse_gpu_array, "log1p")
    /\ Finish("log1p")
    /\ UNCHANGED <<input, objs, adata, genes, barcodes, raw_marker_expressions,
                   covariates, calls, v, rc, selected_cells,
                   adata_selected_cells>>

\* adata = anndata.AnnData(sparse_gpu_array.get()); adata.var_names = genes
\* (the library refuses names whose number is not the number of columns)
ToAnnData ==
    /\ pc = "to_anndata"
    /\ IF Len(genes) = Len(sparse_gpu_array.cols)
       THEN /\ objs' = Append(objs, [NewAnnData(sparse_gpu_array)
                                        EXCEPT !.var_names = Values(genes)])
            /\ Finish("to_anndata")
       ELSE /\ objs' = Append(objs, NewAnnData(sparse_gpu_array))
            /\ Raise("to_anndata")
    /\ adata' = Len(objs) + 1
    /\ UNCHANGED <<input, genes, barcodes, sparse_gpu_array,
                   raw_marker_expressions, covariates, calls, v, rc,
                   selected_cells, adata_selected_cells>>

\* the sets of columns sc.pp.highly_variable_genes may flag: all the tracked
\* genes but at most MaxNonHV of them
HVOutcomes(names) ==
    {S \in SUBSET Range(names) : Cardinality(Range(names) \ S) <= MaxNonHV}

\* a[:, mask]: the object restricted to the columns flagged
SliceColumns(a, hv) ==
    LET mask == [j \in 1..Len(a.var_names) |-> a.var_names[j] \in hv]
    IN  [a EXCEPT !.X.cols = Keep(a.X.cols, mask),
                  !.var_names = Keep(a.var_names, mask)]

\* sc.pp.highly_variable_genes(adata, ...); adata = adata[:, adata.var.highly_variable]
HighlyVariableGenes ==
    /\ pc = "highly_variable_genes"
    /\ \E hv \in HVOutcomes(objs[adata].var_names) :
          objs' = Append(objs, SliceColumns(objs[adata], hv))
    /\ adata' = Len(objs) + 1
    /\ Finish("highly_variable_genes")
    /\ UNCHANGED <<input, genes, barcodes, sparse_gpu_array,
                   raw_marker_expressions, covariates, calls, v, rc,
                   selected_cells, adata_selected_cells>>

\* a variant that reads the markers from the matrix of the sliced object
tmp_norm_sliced == objs[adata].X

\* tmp_norm = sparse_gpu_array.tocsc()
tmp_norm == sparse_gpu_array

\* genes[genes == marker].index: the index labels of the entries equal to marker
MatchIndex(g, marker) ==
    LET hit == Keep(g, [i \in 1..Len(g) |-> g[i].val = marker])
    IN  [i \in 1..Len(hit) |-> hit[i].idx]

\* tmp_norm[:, genes[genes == marker].index[0]] can be evaluated
MarkerFound(marker) ==
    /\ MatchIndex(genes, marker) # <<>>
    /\ MatchIndex(genes, marker)[1] \in 1..Len(tmp_norm.cols)

\* tmp_norm[:, genes[genes == marker].index[0]].todense().ravel()
MarkerColumn(marker) == Column(tmp_norm, MatchIndex(genes, marker)[1])

\* the markers the loop gets through before one raises (all of them if none does)
MarkersSaved ==
    LET bad == {k \in 1..Len(markers) : ~MarkerFound(markers[k])}
        stop == IF bad = {} THEN Len(markers) + 1
                ELSE CHOOSE k \in bad : \A l \in bad : k <= l
    IN  {markers[k] : k \in 1..(stop - 1)}

\* a variant of the loop that passes over a marker it does not find
SaveMarkersSkipping ==
    /\ pc = "save_markers"
    /\ raw_marker_expressions' =
          [m \in Range(markers) |->
              IF MarkerFound(m) THEN MarkerColumn(m) ELSE <<>>]
    /\ Finish("save_markers")
    /\ UNCHANGED <<input, objs, adata, genes, barcodes, sparse_gpu_array,
                   covariates, calls, v, rc, selected_cells,
                   adata_selected_cells>>

\* for marker in markers: raw_marker_expressions[marker] = ...
SaveMarkers ==
    /\ pc = "save_markers"
    /\ raw_marker_expressions' =
          [m \in Range(markers) |->
              IF m \in MarkersSaved THEN MarkerColumn(m) ELSE <<>>]
    /\ IF MarkersSaved = Range(markers)
       THEN Finish("save_markers")
       ELSE Raise("save_markers")
    /\ UNCHANGED <<input, objs, adata, genes, barcodes, sparse_gpu_array,
                   covariates, calls, v, rc, selected_cells,
                   adata_selected_cells>>

\* a variant of the cell without the assignment to genes
GenesKept == genes

\* genes = adata.var_names
GenesRebound == Series(objs[adata].var_names)

\* genes = adata.var_names; n_counts and percent_ribo summed over the rows of adata.X
Covariates ==
    /\ pc = "covariates"
    /\ genes' = GenesRebound
    /\ covariates' = [n_counts |-> objs[adata].X.rows,
                      percent_ribo |-> objs[adata].X.rows]
    /\ Finish("covariates")
    /\ UNCHANGED <<input, objs, adata, barcodes, sparse_gpu_array,
                   raw_marker_expressions, calls, v, rc, selected_cells,
                   adata_selected_cells>>

\* sparse_gpu_array = cp.sparse.csc_matrix(adata.X); regress_out(...)
RegressOut ==
    /\ pc = "regress_out"
    /\ sparse_gpu_array' = regress_out(objs[adata].X, covariates.n_counts,
                                       covariates.percent_ribo)
    /\ Finish("regress_out")
    /\ UNCHANGED <<input, objs, adata, genes, barcodes, raw_marker_expressions,
                   covariates, calls, v, rc, selected_cells,
                   adata_selected_cells>>

Scale ==
    /\ pc = "scale"
    /\ sparse_gpu_array' = scale(sparse_gpu_array)
    /\ Finish("scale")
    /\ UNCHANGED <<input, objs, adata, genes, barcodes, raw_marker_expressions,
                   covariates, calls, v, rc, selected_cells,
                   adata_selected_cells>>

\* the final object: the matrix, then var_names, obs_names and the marker
\* columns, each refused by the library if its length does not fit
Assembled ==
    LET a0 == NewAnnData(sparse_gpu_array)
        a1 == [a0 EXCEPT !.var_names = Values(genes)]
        a2 == [a1 EXCEPT !.obs_names = Values(barcodes)]
        fits == {k \in 1..Len(markers) :
                    Len(raw_marker_expressions[markers[k]]) = Len(a0.X.rows)}
        upto == IF fits = 1..Len(markers) THEN Len(markers)
                ELSE (CHOOSE k \in 1..Len(markers) :
                         k \notin fits /\ \A l \in 1..(k - 1) : l \in fits) - 1
        a3 == [a2 EXCEPT !.raw = [m \in Range(markers) |->
                  IF \E k \in 1..upto : markers[k] = m
                  THEN raw_marker_expressions[m] ELSE <<>>]]
    IN  IF Len(genes) # Len(a0.X.cols) THEN [obj |-> a0, ok |-> FALSE]
        ELSE IF Len(barcodes) # Len(a0.X.rows) THEN [obj |-> a1, ok |-> FALSE]
        ELSE [obj |-> a3, ok |-> upto = Len(markers)]

Assemble ==
    /\ pc = "assemble"
    /\ objs' = Append(objs, Assembled.obj)
    /\ adata' = Len(objs) + 1
    /\ IF Assembled.ok THEN Finish("assemble") ELSE Raise("assemble")
    /\ UNCHANGED <<input, genes, barcodes, sparse_gpu_array,
                   raw_marker_expressions, covariates, calls, v, rc,
                   selected_cells, adata_selected_cells>>

----------------------------------------------------------------------------
(* Clustering: the library calls of the main pipeline and of re_cluster *)

\* PCA(n_components=n_components, output_type="numpy").fit_transform(adata.X)
MainPcaCall ==
    [fn   |-> "cuml.PCA.fit_transform",
     args |-> << <<"n_components", ToString(n_components)>>,
                 <<"output_type", "numpy">> >>,
     post |-> ""]

\* sc.pp.neighbors(adata, n_neighbors=n_neighbors, n_pcs=knn_n_pcs, method='rapids')
MainNeighborsCall ==
    [fn   |-> "sc.pp.neighbors",
     args |-> << <<"n_neighbors", ToString(n_neighbors)>>,
                 <<"n_pcs", ToString(knn_n_pcs)>>,
                 <<"method", "rapids">> >>,
     post |-> ""]

\* sc.tl.umap(adata, min_dist=umap_min_dist, spread=umap_spread, method='rapids')
MainUmapCall ==
    [fn   |-> "sc.tl.umap",
     args |-> << <<"min_dist", umap_min_dist>>,
                 <<"spread", umap_spread>>,
                 <<"method", "rapids">> >>,
     post |-> ""]

\* sc.tl.louvain(adata, flavor='rapids')
MainLouvainCall ==
    [fn   |-> "sc.tl.louvain",
     args |-> << <<"flavor", "rapids">> >>,
     post |-> ""]

\* PCA(n_components=n_components).fit_transform(adata.X).get()
RePcaCall ==
    [fn   |-> "cuml.PCA.fit_transform",
     args |-> << <<"n_components", ToString(n_components)>> >>,
     post |-> "get"]

ReNeighborsCall ==
    [fn   |-> "sc.pp.neighbors",
     args |-> << <<"n_neighbors", ToString(n_neighbors)>>,
                 <<"n_pcs", ToString(knn_n_pcs)>>,
                 <<"method", "rapids">> >>,
     post |-> ""]

ReUmapCall ==
    [fn   |-> "sc.tl.umap",
     args |-> << <<"min_dist", umap_min_dist>>,
                 <<"spread", umap_spread>>,
                 <<"method", "rapids">> >>,
     post |-> ""]

ReLouvainCall ==
    [fn   |-> "sc.tl.louvain",
     args |-> << <<"flavor", "rapids">> >>,
     post |-> ""]

\* the objects and the call log, which a library call reads and changes
World == [objs |-> objs, calls |-> calls]

Logged(w, id, call) ==
    Append(w.calls, [fn |-> call.fn, args |-> call.args, post |-> call.post,
                     obj |-> id])

\* adata.obsm["X_pca"] = PCA(...).fit_transform(adata.X): the components of
\* the matrix the object holds at the call
LibPca(w, id, call) ==
    [objs  |-> [w.objs EXCEPT ![id].X_pca = <<w.objs[id].X>>],
     calls |-> Logged(w, id, call)]

\* sc.pp.neighbors(adata, ...): the graph over the object's X_pca, in place
LibNeighbors(w, id, call) ==
    [objs  |-> [w.objs EXCEPT ![id].neighbors = <<[of |-> w.objs[id].X_pca]>>],
     calls |-> Logged(w, id, call)]

\* sc.tl.umap(adata, ...): the layout of the object's graph, in place
LibUmap(w, id, call) ==
    [objs  |-> [w.objs EXCEPT ![id].X_umap = <<[of |-> w.objs[id].neighbors]>>],
     calls |-> Logged(w, id, call)]

\* the label Louvain gives a cell when it clusters the cells of rows
LouvainLabels(rows) ==
    [i \in 1..Len(rows) |-> [among |-> Range(rows), cell |-> rows[i]]]

\* sc.tl.louvain(adata, ...): one label per row, in place
LibLouvain(w, id, call) ==
    [objs  |-> [w.objs EXCEPT ![id].louvain = LouvainLabels(w.objs[id].X.rows)],
     calls |-> Logged(w, id, call)]

\* a variant of re_cluster that builds the graph before the components and
\* hands back a copy
re_cluster_copy(w, id) ==
    LET w1 == LibNeighbors(w, id, ReNeighborsCall)
        w2 == LibPca(w1, id, RePcaCall)
        w3 == LibUmap(w2, id, ReUmapCall)
        w4 == LibLouvain(w3, id, ReLouvainCall)
    IN  [world |-> [w4 EXCEPT !.objs = Append(@, w4.objs[id])],
         ret   |-> Len(w4.objs) + 1]

\* a variant of re_cluster without the Louvain call
re_cluster_no_louvain(w, id) ==
    LET w1 == LibPca(w, id, RePcaCall)
        w2 == LibNeighbors(w1, id, ReNeighborsCall)
        w3 == LibUmap(w2, id, ReUmapCall)
    IN  [world |-> w3, ret |-> id]

\* def re_cluster(adata): PCA, neighbors, umap, louvain on adata; return adata
re_cluster(w, id) ==
    LET w1 == LibPca(w, id, RePcaCall)
        w2 == LibNeighbors(w1, id, ReNeighborsCall)
        w3 == LibUmap(w2, id, ReUmapCall)
        w4 == LibLouvain(w3, id, ReLouvainCall)
    IN  [world |-> w4, ret |-> id]

RunPca ==
    /\ pc = "pca"
    /\ objs' = LibPca(World, adata, MainPcaCall).objs
    /\ calls' = LibPca(World, adata, MainPcaCall).calls
    /\ Finish("pca")
    /\ UNCHANGED <<input, adata, genes, barcodes, sparse_gpu_array,
                   raw_marker_expressions, covariates, v, rc, selected_cells,
                   adata_selected_cells>>

Neighbors ==
    /\ pc = "neighbors"
    /\ objs' = LibNeighbors(World, adata, MainNeighborsCall).objs
    /\ calls' = LibNeighbors(World, adata, MainNeighborsCall).calls
    /\ Finish("neighbors")
    /\ UNCHANGED <<input, adata, genes, barcodes, sparse_gpu_array,
                   raw_marker_expressions, covariates, v, rc, selected_cells,
                   adata_selected_cells>>

Umap ==
    /\ pc = "umap"
    /\ objs' = LibUmap(World, adata, MainUmapCall).objs
    /\ calls' = LibUmap(World, adata, MainUmapCall).calls
    /\ Finish("umap")
    /\ UNCHANGED <<input, adata, genes, barcodes, sparse_gpu_array,
                   raw_marker_expressions, covariates, v, rc, selected_cells,
                   adata_selected_cells>>

Louvain ==
    /\ pc = "louvain"
    /\ objs' = LibLouvain(World, adata, MainLouvainCall).objs
    /\ calls' = LibLouvain(World, adata, MainLouvainCall).calls
    /\ Finish("louvain")
    /\ UNCHANGED <<input, adata, genes, barcodes, sparse_gpu_array,
                   raw_marker_expressions, covariates, v, rc, selected_cells,
                   adata_selected_cells>>

----------------------------------------------------------------------------
(* The dashboard: visualize.Visualization *)

\* a[pos, :]: the rows of a at the positions pos, in that order, as a new object
IndexRows(a, pos) ==
    [a EXCEPT !.X.rows = [i \in 1..Len(pos) |-> a.X.rows[pos[i]]],
              !.obs_names = [i \in 1..Len(pos) |-> a.obs_names[pos[i]]],
              !.raw = [m \in Range(markers) |->
                          IF a.raw[m] = <<>> THEN <<>>
                          ELSE [i \in 1..Len(pos) |-> a.raw[m][pos[i]]]],
              !.louvain = IF a.louvain = <<>> THEN <<>>
                          ELSE [i \in 1..Len(pos) |-> a.louvain[pos[i]]]]

\* the positions of the rows of a whose cell is in S, ascending
PositionsOf(a, S) ==
    Keep([i \in 1..Len(a.X.rows) |-> i],
         [i \in 1..Len(a.X.rows) |-> a.X.rows[i] \in S])

\* the cells the dashboard shows
Shown == Range(objs[v.adata].X.rows)

\* the table of the selected cells: barcode and cluster label
SelectionTable ==
    LET a == objs[v.adata]
        pos == PositionsOf(a, v.selection)
    IN  [i \in 1..Len(pos) |->
            [barcode |-> a.obs_names[pos[i]], labels |-> a.louvain[pos[i]]]]

\* the object Visualization(...) is given
VisualizedObject == adata

\* v = visualize.Visualization(adata, markers, re_cluster_callback=re_cluster)
\* v.start('localhost'), which serves the dashboard until it is closed
StartVisualization ==
    /\ pc = "visualize"
    /\ v' = [adata |-> VisualizedObject, selection |-> {}, open |-> TRUE,
             new_df |-> NoTable, reclusters |-> 0]
    /\ pc' = "dashboard"
    /\ done' = Append(done, "visualize")
    /\ UNCHANGED <<failed, input, objs, adata, genes, barcodes,
                   sparse_gpu_array, raw_marker_expressions, covariates, calls,
                   rc, selected_cells, adata_selected_cells>>

\* the user selects cells among those shown
Select ==
    /\ pc = "dashboard"
    /\ v.open
    /\ \E S \in SUBSET Shown :
          /\ S # v.selection
          /\ v' = [v EXCEPT !.selection = S]
    /\ UNCHANGED <<pc, failed, done, input, objs, adata, genes, barcodes,
                   sparse_gpu_array, raw_marker_expressions, covariates, calls,
                   rc, selected_cells, adata_selected_cells>>

\* the user re-clusters the selection: the callback runs on the selected rows
\* and the dashboard shows what it returns
ReCluster ==
    /\ pc = "dashboard"
    /\ v.open
    /\ v.selection # {}
    /\ v.reclusters < MaxReclusters
    /\ LET sub == IndexRows(objs[v.adata], PositionsOf(objs[v.adata], v.selection))
           id  == Len(objs) + 1
           r   == re_cluster([objs |-> Append(objs, sub), calls |-> calls], id)
       IN  /\ objs' = r.world.objs
           /\ calls' = r.world.calls
           /\ rc' = [arg |-> id, ret |-> r.ret]
           /\ v' = [v EXCEPT !.adata = r.ret, !.reclusters = @ + 1]
    /\ done' = Append(done, "re_cluster")
    /\ UNCHANGED <<pc, failed, input, adata, genes, barcodes, sparse_gpu_array,
                   raw_marker_expressions, covariates, selected_cells,
                   adata_selected_cells>>

\* the user clicks Export to Dataframe: the selection is stored in new_df and
\* the dashboard closes
Export ==
    /\ pc = "dashboard"
    /\ v.open
    /\ v' = [v EXCEPT !.new_df = SelectionTable, !.open = FALSE]
    /\ done' = Append(done, "export")
    /\ UNCHANGED <<pc, failed, input, objs, adata, genes, barcodes,
                   sparse_gpu_array, raw_marker_expressions, covariates, calls,
                   rc, selected_cells, adata_selected_cells>>

\* a variant of the visualization cell that reads new_df without waiting for
\* v.start to return
AssignSelectedEarly ==
    /\ pc = "dashboard"
    /\ selected_cells' = v.new_df
    /\ pc' = NextCell("visualize")
    /\ UNCHANGED <<failed, done, input, objs, adata, genes, barcodes,
                   sparse_gpu_array, raw_marker_expressions, covariates, calls,
                   v, rc, adata_selected_cells>>

\* v.start has returned; selected_cells = v.new_df
AssignSelected ==
    /\ pc = "dashboard"
    /\ ~v.open
    /\ selected_cells' = v.new_df
    /\ pc' = NextCell("visualize")
    /\ UNCHANGED <<failed, done, input, objs, adata, genes, barcodes,
                   sparse_gpu_array, raw_marker_expressions, covariates, calls,
                   v, rc, adata_selected_cells>>

\* print(selected_cells.shape); selected_cells.head()
ShowSelected ==
    /\ pc = "show_selected"
    /\ Finish("show_selected")
    /\ UNCHANGED <<input, objs, adata, genes, barcodes, sparse_gpu_array,
                   raw_marker_expressions, covariates, calls, v, rc,
                   selected_cells, adata_selected_cells>>

\* the barcodes of a table, in row order
BarcodesOf(t) == [i \in 1..Len(t) |-> t[i].barcode]

\* every name is an observation name of a, once
Resolvable(a, names) ==
    \A i \in 1..Len(names) :
        Cardinality({r \in 1..Len(a.obs_names) : a.obs_names[r] = names[i]}) = 1

\* a variant that looks the barcodes up in the object adata was bound to
\* before the final one
LinkedObjectStale == adata - 1

\* the object the barcodes are looked up in
LinkedObject == adata

\* adata_selected_cells = adata[selected_cells.barcode.to_array(), :]
LinkSelected ==
    /\ pc = "link_selected"
    /\ LET a == objs[LinkedObject]
           names == BarcodesOf(selected_cells)
       IN  IF Resolvable(a, names)
           THEN /\ objs' = Append(objs,
                       IndexRows(a, [i \in 1..Len(names) |->
                           CHOOSE r \in 1..Len(a.obs_names) :
                               a.obs_names[r] = names[i]]))
                /\ adata_selected_cells' = Len(objs) + 1
                /\ Finish("link_selected")
           ELSE /\ UNCHANGED <<objs, adata_selected_cells>>
                /\ Raise("link_selected")
    /\ UNCHANGED <<input, adata, genes, barcodes, sparse_gpu_array,
                   raw_marker_expressions, covariates, calls, v, rc,
                   selected_cells>>

Next ==
    \/ Load
    \/ ToGpu
    \/ FilterCells
    \/ FilterGenes
    \/ NormalizeTotal
    \/ Log1p
    \/ ToAnnData
    \/ HighlyVariableGenes
    \/ SaveMarkers
    \/ Covariates
    \/ RegressOut
    \/ Scale
    \/ Assemble
    \/ RunPca
    \/ Neighbors
    \/ Umap
    \/ Louvain
    \/ StartVisualization
    \/ Select
    \/ ReCluster
    \/ Export
    \/ AssignSelected
    \/ ShowSelected
    \/ LinkSelected

Spec == Init /\ [][Next]_vars

\* the kernel runs the statement after v.start once v.start has returned
LiveSpec == Spec /\ WF_vars(AssignSelected)

----------------------------------------------------------------------------
(* Properties *)

Ran(c) == \E i \in 1..Len(done) : done[i] = c

\* the cells that pass the cell filter, in the order of the input file
KeptCells ==
    Keep([c \in 1..NCells |-> c], [c \in 1..NCells |-> PassesFilter(c)])

\* the values a marker has in the normalized, log-transformed matrix
NormalizedColumn(m) ==
    LET kept == KeptCells
    IN  [i \in 1..Len(kept) |->
            [cell |-> kept[i], gene |-> m,
             stage |-> <<"normalize_total", "log1p">>]]

\* the cell a barcode of the input file names
CellOf(b) == CHOOSE c \in 1..Len(InputBarcodes) : InputBarcodes[c] = b

AfterDashboard ==
    \/ pc \in {"show_selected", "link_selected", "end"}
    \/ pc = "error" /\ failed = "link_selected"

\* ---- C1 ----
\* C1: the pipeline steps run once each and in the order load, filter cells,
\* filter genes, normalize, log-transform, highly variable genes, regress out,
\* scale, PCA, neighbors, UMAP, Louvain, visualization; a step runs only when
\* all the steps before it have run; re-clustering and export happen only
\* after the visualization has started.
ClaimedOrder ==
    << "load", "filter_cells", "filter_genes", "normalize_total", "log1p",
       "highly_variable_genes", "regress_out", "scale", "pca", "neighbors",
       "umap", "louvain", "visualize" >>

IsClaimedStep(c) == c \in Range(ClaimedOrder)

C1_PipelineOrder ==
    LET ran == SelectSeq(done, IsClaimedStep)
    IN  /\ Len(ran) <= Len(ClaimedOrder)
        /\ ran = SubSeq(ClaimedOrder, 1, Len(ran))
        /\ \A k \in 1..Len(ClaimedOrder) :
              pc = ClaimedOrder[k] => Len(ran) = k - 1
        /\ pc \in {"dashboard", "show_selected", "link_selected", "end"}
              => ran = ClaimedOrder
        /\ \A i \in 1..Len(done) :
              done[i] \in {"re_cluster", "export"}
                 => \E j \in 1..(i - 1) : done[j] = "visualize"

C1_Witness == pc = "end" /\ Ran("re_cluster") /\ Ran("export")

\* ---- C2 ----
\* C2: every call of re_cluster makes exactly four library calls, PCA,
\* neighbors, UMAP and Louvain in that order, each on the object it was given,
\* and returns that object.
C2_ReClusterInPlace ==
    v.reclusters > 0 =>
        LET n == Len(calls)
        IN  /\ n = 4 + 4 * v.reclusters
            /\ calls[n - 3].fn = "cuml.PCA.fit_transform"
            /\ calls[n - 2].fn = "sc.pp.neighbors"
            /\ calls[n - 1].fn = "sc.tl.umap"
            /\ calls[n].fn = "sc.tl.louvain"
            /\ \A k \in (n - 3)..n : calls[k].obj = rc.arg
            /\ rc.ret = rc.arg
            /\ v.adata = rc.arg
            /\ objs[rc.ret].X_pca # <<>>
            /\ objs[rc.ret].neighbors = <<[of |-> objs[rc.ret].X_pca]>>
            /\ objs[rc.ret].X_umap = <<[of |-> objs[rc.ret].neighbors]>>
            /\ objs[rc.ret].louvain = LouvainLabels(objs[rc.ret].X.rows)

C2_Witness == v.reclusters > 0 /\ Len(objs[v.adata].X.rows) = 1

\* ---- C3 ----
\* C3: each library call made by re_cluster has the function, the arguments
\* and the output handling of the corresponding call of the main pipeline.
C3_SameConfiguration ==
    \A k \in 5..Len(calls) :
        LET main == calls[((k - 1) % 4) + 1]
        IN  /\ calls[k].fn = main.fn
            /\ calls[k].args = main.args
            /\ calls[k].post = main.post

\* ---- C4 ----
\* C4: after an export, selected_cells holds one row for each cell selected
\* at the export and no other, and the label of each row is the one the most
\* recent clustering gave that cell.
C4_ExportedSelection ==
    AfterDashboard =>
        LET last == objs[calls[Len(calls)].obj]
        IN  /\ Len(selected_cells) = Cardinality(v.selection)
            /\ {CellOf(selected_cells[i].barcode) : i \in 1..Len(selected_cells)}
                  = v.selection
            /\ \A i \in 1..Len(selected_cells) :
                  selected_cells[i].labels =
                     [among |-> Range(last.X.rows),
                      cell  |-> CellOf(selected_cells[i].barcode)]

C4_Witness ==
    /\ pc = "end"
    /\ v.reclusters > 0
    /\ v.selection # {}
    /\ v.selection # Range(objs[v.adata].X.rows)

\* ---- C5 ----
\* C5: while the dashboard is open the visualization cell has not finished;
\* an export closes the dashboard; the cells after the visualization cell run
\* only after an export; and after an export the visualization cell finishes.
C5_ExportClosesDashboard ==
    /\ [](v.open => pc = "dashboard")
    /\ [](Ran("export") => ~v.open)
    /\ [](AfterDashboard => Ran("export") /\ selected_cells = v.new_df)
    /\ (Ran("export") ~> pc # "dashboard")

C5_Witness == pc = "show_selected" /\ Ran("export") /\ selected_cells # NoTable

\* ---- C6 ----
\* C6: after an export every barcode of selected_cells is an observation name
\* of adata, the lookup by barcode does not raise, and its result has one row
\* per exported cell, in the order of the table.
C6_BarcodesResolve ==
    /\ AfterDashboard =>
          \A i \in 1..Len(selected_cells) :
              selected_cells[i].barcode \in Range(objs[adata].obs_names)
    /\ failed # "link_selected"
    /\ pc = "end" =>
          LET r == objs[adata_selected_cells]
          IN  /\ Len(r.X.rows) = Len(selected_cells)
              /\ r.obs_names = BarcodesOf(selected_cells)
              /\ \A i \in 1..Len(r.X.rows) :
                    r.X.rows[i] = CellOf(selected_cells[i].barcode)

C6_Witness ==
    /\ pc = "end"
    /\ v.reclusters > 0
    /\ Len(selected_cells) > 0
    /\ Len(selected_cells) < Len(objs[adata].obs_names)

\* ---- C7 ----
\* C7: once the marker cell has run, each marker's saved vector holds its
\* values in the normalized, log-transformed matrix, one per kept cell; the
\* marker cell raises only if a marker is missing from the gene list left by
\* the gene filter; and the <marker>_raw columns of the final object hold the
\* same values, whether or not the marker is a highly variable gene.
C7_MarkersSavedBeforeRegression ==
    /\ Ran("save_markers") =>
          \A m \in Range(markers) :
              raw_marker_expressions[m] = NormalizedColumn(m)
    /\ failed = "save_markers" =>
          \E m \in Range(markers) : m \notin Range(Values(genes))
    /\ Ran("assemble") =>
          \A m \in Range(markers) : objs[adata].raw[m] = NormalizedColumn(m)

C7_Witness ==
    /\ Ran("assemble")
    /\ sparse_gpu_array.stage =
          <<"normalize_total", "log1p", "regress_out", "scale">>
    /\ \E m \in Range(markers) : m \notin Range(objs[adata].var_names)

\* ---- C8 ----
\* C8: from the cell filter on, the rows of the matrix are the cells that
\* passed the filter in input order, barcode i is the barcode of the cell of
\* row i, every saved marker vector has the cells of the rows in order, and
\* the final object has the same rows, barcodes and marker values.
C8_RowAlignment ==
    Ran("filter_cells") =>
        LET kept == KeptCells
            names == [i \in 1..Len(kept) |-> InputBarcodes[kept[i]]]
        IN  /\ sparse_gpu_array.rows = kept
            /\ Values(barcodes) = names
            /\ \A m \in Range(markers) :
                  raw_marker_expressions[m] # <<>> =>
                     [i \in 1..Len(raw_marker_expressions[m]) |->
                         raw_marker_expressions[m][i].cell] = kept
            /\ Ran("assemble") =>
                  /\ objs[adata].X.rows = kept
                  /\ objs[adata].obs_names = names
                  /\ \A m \in Range(markers) :
                        [i \in 1..Len(objs[adata].raw[m]) |->
                            objs[adata].raw[m][i].cell] = kept

C8_Witness ==
    /\ Ran("assemble")
    /\ Len(KeptCells) = 1
    /\ KeptCells[1] = NCells

\* ---- C9 ----
\* C9: genes names the columns of the matrix it is used with: the columns of
\* sparse_gpu_array up to the marker lookup, under index labels equal to the
\* positions; the columns of the sliced object once genes is re-bound; the
\* columns of the regressed and scaled matrix after that; and the var_names
\* of the final object are the columns of its matrix.
C9_ColumnAlignment ==
    /\ pc \in {"filter_cells", "filter_genes", "normalize_total", "log1p",
               "to_anndata", "highly_variable_genes", "save_markers",
               "covariates"} =>
          /\ Values(genes) = sparse_gpu_array.cols
          /\ \A j \in 1..Len(genes) : genes[j].idx = j
    /\ pc \in {"highly_variable_genes", "save_markers", "covariates",
               "regress_out"} =>
          objs[adata].var_names = objs[adata].X.cols
    /\ pc = "regress_out" => Values(genes) = objs[adata].X.cols
    /\ Ran("regress_out") => Values(genes) = sparse_gpu_array.cols
    /\ Ran("save_markers") =>
          \A m \in Range(markers) :
              \A i \in 1..Len(raw_marker_expressions[m]) :
                  raw_marker_expressions[m][i].gene = m
    /\ Ran("assemble") =>
          /\ objs[adata].var_names = objs[adata].X.cols
          /\ objs[adata].X.stage =
                <<"normalize_total", "log1p", "regress_out", "scale">>

C9_Witness ==
    /\ Ran("assemble")
    /\ "RPS3" \notin Range(objs[adata].var_names)
    /\ Len(objs[adata].var_names) = 2

\* ---- C10 ----
\* C10: if a marker gene is expressed in no cell that passes the cell filter,
\* the run stops at the marker cell and no later cell runs; and whenever a
\* cell raises, that cell and the cells below it have not run.
MarkerSurvives(m) ==
    \E c \in 1..NCells : PassesFilter(c) /\ m \in input[c].expr

BelowMarkers ==
    {Cells[k] : k \in (CellIndex("save_markers") + 1)..Len(Cells)} \cup {"dashboard"}

C10_NoRecovery ==
    /\ (\E m \in Range(markers) : ~MarkerSurvives(m)) =>
          /\ pc \notin BelowMarkers
          /\ ~Ran("save_markers")
          /\ \A c \in BelowMarkers : ~Ran(c)
          /\ pc = "error" => failed = "save_markers"
    /\ pc = "error" =>
          /\ failed \in Range(Cells)
          /\ \A k \in CellIndex(failed)..Len(Cells) : ~Ran(Cells[k])
          /\ ~v.open
    /\ pc # "error" => failed = ""

C10_Witness ==
    /\ pc = "error"
    /\ failed = "save_markers"
    /\ raw_marker_expressions["TMPRSS2"] # <<>>
    /\ raw_marker_expressions["EPCAM"] = <<>>

====
